---- MODULE Spec2Model ----
(***************************************************************************)
(* Per-pixel seasonal compositing and temporal-difference pipeline of the  *)
(* notebooks: quality masking -> NDVI -> cross-sensor merge                *)
(* (combine_first) -> JJA filter -> per-year median -> differences to 2017,*)
(* then the Sentinel-1 cells: nodata and percentile filter of VH -> JJA     *)
(* filter -> per-year median -> difference to 2017.                        *)
(*                                                                         *)
(* A raster time series is a function from its timestamps (integers        *)
(* YYYYMM, the time coordinate) to rasters; a raster is a function from    *)
(* Pixels to cells.  Floating-point values are fixed-point integers in     *)
(* eighths (One = 1.0); NaN is the tagged record NaN.                      *)
(***************************************************************************)
EXTENDS Integers, Sequences, FiniteSets, TLC

VARIABLES
    ds_s2,          \* loaded Sentinel-2 dataset: time -> pixel -> [red, nir, pixel_qa]
    ds_l8,          \* loaded Landsat-8 dataset, same layout
    flags_def,      \* names of the flags that pixel_qa defines, per sensor
    mask_s2,        \* boolean mask of ds_s2
    mask_l8,        \* boolean mask of ds_l8
    s2,             \* masked Sentinel-2 dataset (floats), later with NDVI
    l8,             \* masked Landsat-8 dataset (floats), later with NDVI
    s2_l8_ind,      \* merged index series
    s2_l8_ind_spy,  \* merged series restricted to summer and to [0, 1]
    mpspy,          \* median per summer per year: sequence of [year, data]
    diff_18,        \* difference raster 2018 - 2017
    diff_19,        \* difference raster 2019 - 2017
    diff_1819,      \* difference raster mean(2018, 2019) - 2017
    ds_s1_asc,      \* loaded Sentinel-1 ascending dataset: time -> pixel -> [VH]
    vh_asc,         \* VH without nodata and outliers (floats)
    mpspy_vh_asc,   \* median per summer per year of vh_asc
    diff_1819_vh_asc, \* difference raster mean(2018, 2019) - 2017 of VH
    product,        \* observation-count notebook: "optical", "sar", or "none"
    ds_obs,         \* its loaded dataset: sequence (time axis) of rasters of
                    \* pixel_qa words or of VH values
    chunk_y,        \* its dask chunk sizes along y and x
    chunk_x,
    task,           \* state of each spatial chunk's tasks in the dask graph
    mask_block,     \* per chunk: boolean validity series of its pixels
    count_block,    \* per chunk: valid observations of its pixels
    count,          \* the count raster
    reads,          \* per chunk: the places its tasks have read
    writes,         \* per chunk: the places its tasks have written
    err,            \* exception that aborted the run, or "none"
    pc              \* next statement of the notebook

vars == <<ds_s2, ds_l8, flags_def, mask_s2, mask_l8, s2, l8, s2_l8_ind, s2_l8_ind_spy,
          mpspy, diff_18, diff_19, diff_1819,
          ds_s1_asc, vh_asc, mpspy_vh_asc, diff_1819_vh_asc,
          product, ds_obs, chunk_y, chunk_x, task, mask_block, count_block, count,
          reads, writes, err, pc>>

\* The variables of the observation-count notebooks.
count_vars == <<product, ds_obs, chunk_y, chunk_x, task, mask_block, count_block,
                count, reads, writes>>

\* The variables of the Sentinel-1 cells.
sar_vars == <<ds_s1_asc, vh_asc, mpspy_vh_asc, diff_1819_vh_asc>>

----------------------------------------------------------------------------
(* Bounds and sample inputs *)

\* Largest number of acquisitions a loaded dataset holds in the model.
MaxObs == 3

Pixels == {"p1", "p2"}

\* Acquisition times YYYYMM the datacube may hold.
Times == {201707, 201708, 201807, 201810, 201907}

\* Fixed-point 1.0 (the literal 1 of the range test, in eighths).
One == 8

----------------------------------------------------------------------------
(* Floating-point cells *)

NaN == [nan |-> TRUE, v |-> 0]

Num(x) == [nan |-> FALSE, v |-> x]

IsNull(c) == c.nan

\* a - b, a + b, a / 2 on floats: NaN in any operand gives NaN.
Sub(a, b) == IF a.nan \/ b.nan THEN NaN ELSE Num(a.v - b.v)

Add(a, b) == IF a.nan \/ b.nan THEN NaN ELSE Num(a.v + b.v)

Half(a) == IF a.nan THEN NaN ELSE Num(a.v \div 2)

\* a >= lo and a <= hi on floats: comparisons with NaN are False.
Ge(a, lo) == ~a.nan /\ a.v >= lo

Le(a, hi) == ~a.nan /\ a.v <= hi

----------------------------------------------------------------------------
(* Time coordinate *)

Year(t) == t \div 100

Month(t) == t % 100

SeasonNames == <<"DJF", "MAM", "JJA", "SON">>

\* xarray's time.season accessor: seasons are indexed by (month // 3) % 4.
Season(t) == SeasonNames[((Month(t) \div 3) % 4) + 1]

MinOf(S) == CHOOSE x \in S : \A y \in S : x <= y

RECURSIVE Ascending(_)
\* The ascending sequence of the integers of S (a sorted index).
Ascending(S) == IF S = {} THEN <<>>
                ELSE <<MinOf(S)>> \o Ascending(S \ {MinOf(S)})

----------------------------------------------------------------------------
(* Quality flags of the pixel_qa band (FORCE quality assurance bits) *)

Pow2(n) == IF n = 0 THEN 1 ELSE 2 ^ n

\* flags_definition of pixel_qa: lowest bit, number of bits, code of each label.
FlagsDefinition ==
    [valid_data           |-> [low |-> 0,  width |-> 1, values |-> [valid |-> 0, no_data |-> 1]],
     cloud_state          |-> [low |-> 1,  width |-> 2, values |-> [clear |-> 0, less_confident |-> 1, confident |-> 2, cirrus |-> 3]],
     cloud_shadow_flag    |-> [low |-> 3,  width |-> 1, values |-> [False |-> 0, True |-> 1]],
     snow_flag            |-> [low |-> 4,  width |-> 1, values |-> [False |-> 0, True |-> 1]],
     water_flag           |-> [low |-> 5,  width |-> 1, values |-> [False |-> 0, True |-> 1]],
     subzero_flag         |-> [low |-> 8,  width |-> 1, values |-> [False |-> 0, True |-> 1]],
     saturation_flag      |-> [low |-> 9,  width |-> 1, values |-> [False |-> 0, True |-> 1]],
     high_sun_zenith_flag |-> [low |-> 10, width |-> 1, values |-> [False |-> 0, True |-> 1]]]

\* The predicate set of the compositing notebook.
flags ==
    [valid_data           |-> "valid",
     cloud_state          |-> "clear",
     cloud_shadow_flag    |-> "False",
     snow_flag            |-> "False",
     subzero_flag         |-> "False",
     saturation_flag      |-> "False",
     high_sun_zenith_flag |-> "False"]

\* The predicate set of the observation-count notebook.
flags_obs ==
    [valid_data        |-> "valid",
     cloud_state       |-> "clear",
     cloud_shadow_flag |-> "False"]

RECURSIVE BitAnd(_, _)
\* Bitwise and of two naturals.
BitAnd(a, b) == IF a = 0 \/ b = 0 THEN 0
                ELSE (a % 2) * (b % 2) + 2 * BitAnd(a \div 2, b \div 2)

RECURSIVE SumOver(_, _)
SumOver(S, f) == IF S = {} THEN 0
                 ELSE LET x == CHOOSE y \in S : TRUE
                      IN  f[x] + SumOver(S \ {x}, f)

\* (mask, value) of a predicate set: the bits the predicates read and the
\* bit pattern they require.
CreateMaskValue(fl) ==
    LET def(k) == FlagsDefinition[k]
        m == [k \in DOMAIN fl |-> (Pow2(def(k).width) - 1) * Pow2(def(k).low)]
        w == [k \in DOMAIN fl |-> def(k).values[fl[k]] * Pow2(def(k).low)]
    IN  [mask |-> SumOver(DOMAIN fl, m), value |-> SumOver(DOMAIN fl, w)]

\* A lookup that skips the flags the stack does not define.
KnowsFlagsLenient(names, fl) == TRUE

\* create_mask_value looks every predicate key up in the flags definition of
\* the stack before any pixel is read: an unknown key raises.
KnowsFlags(names, fl) == DOMAIN fl \subseteq names

\* MaskCell comparing the whole word with the required pattern (mask dropped).
MaskCellNoMask(qa, fl) == qa = CreateMaskValue(fl).value

\* make_mask on one cell: variable & mask == value.
MaskCell(qa, fl) ==
    LET mv == CreateMaskValue(fl)
    IN  BitAnd(qa, mv.mask) = mv.value

\* masking.make_mask(ds.pixel_qa, **fl): a boolean series of the same shape.
make_mask(ds, fl) ==
    [t \in DOMAIN ds |-> [p \in DOMAIN ds[t] |-> MaskCell(ds[t][p].pixel_qa, fl)]]

\* A where() that ignores the mask.
where_unmasked(ds, mask) ==
    [t \in DOMAIN ds |->
        [p \in DOMAIN ds[t] |->
            [red |-> Num(ds[t][p].red), nir |-> Num(ds[t][p].nir),
             pixel_qa |-> Num(ds[t][p].pixel_qa)]]]

\* ds.where(mask): every variable becomes a float, NaN where the mask is False.
where(ds, mask) ==
    [t \in DOMAIN ds |->
        [p \in DOMAIN ds[t] |->
            IF mask[t][p]
            THEN [red |-> Num(ds[t][p].red), nir |-> Num(ds[t][p].nir),
                  pixel_qa |-> Num(ds[t][p].pixel_qa)]
            ELSE [red |-> NaN, nir |-> NaN, pixel_qa |-> NaN]]]

----------------------------------------------------------------------------
(* Index computation (utils/bandindices.py) *)

\* a / b on floats in fixed point; 0 / 0 is NaN.  The model draws no bands
\* with a zero sum and a nonzero difference (the quotient would be infinite).
Div(a, b) ==
    IF a.nan \/ b.nan THEN NaN
    ELSE IF b.v = 0 /\ a.v = 0 THEN NaN
    ELSE Num((One * a.v) \div b.v)

\* NDVI = (nir - red) / (nir + red)
NDVI(c) == Div(Sub(c.nir, c.red), Add(c.nir, c.red))

\* bandindices.optical(ds, index=["NDVI", ...], inplace=True, drop=False):
\* the dataset with the index added as a variable.
optical(ds) ==
    [t \in DOMAIN ds |->
        [p \in DOMAIN ds[t] |->
            [red |-> ds[t][p].red, nir |-> ds[t][p].nir,
             pixel_qa |-> ds[t][p].pixel_qa, NDVI |-> NDVI(ds[t][p])]]]

\* bandindices.sar(ds, index=["VVVH", "VHVV"], inplace=True, drop=False):
\* the dataset with the band ratios added as variables.
sar(ds) ==
    [t \in DOMAIN ds |->
        [p \in DOMAIN ds[t] |->
            [VV |-> ds[t][p].VV, VH |-> ds[t][p].VH,
             VVVH |-> Div(Num(ds[t][p].VV), Num(ds[t][p].VH)),
             VHVV |-> Div(Num(ds[t][p].VH), Num(ds[t][p].VV))]]]

\* ds.NDVI: the index variable of a dataset as a series.
IndexOf(ds) == [t \in DOMAIN ds |-> [p \in DOMAIN ds[t] |-> ds[t][p].NDVI]]

----------------------------------------------------------------------------
(* Cross-sensor merge *)

\* Outer-join reindexing: the series on the time index ts, NaN where it has
\* no acquisition.
Reindex(a, ts) ==
    [t \in ts |-> [p \in Pixels |-> IF t \in DOMAIN a THEN a[t][p] ELSE NaN]]

\* fillna: a where a is not null, b elsewhere.
Fillna(a, b) ==
    [t \in DOMAIN a |-> [p \in Pixels |-> IF IsNull(a[t][p]) THEN b[t][p] ELSE a[t][p]]]

\* combine_first with the precedence reversed: b filled from a.
combine_first_secondary(a, b) ==
    LET ts == DOMAIN a \cup DOMAIN b
    IN  Fillna(Reindex(b, ts), Reindex(a, ts))

\* combine_first with an inner join of the time indexes.
combine_first_inner(a, b) ==
    LET ts == DOMAIN a \cap DOMAIN b
    IN  Fillna(Reindex(a, ts), Reindex(b, ts))

\* a.combine_first(b): outer join of the time indexes, then a filled from b.
combine_first(a, b) ==
    LET ts == DOMAIN a \cup DOMAIN b
    IN  Fillna(Reindex(a, ts), Reindex(b, ts))

----------------------------------------------------------------------------
(* Seasonal aggregation *)

\* The condition without its season test.
InRangeOnly(t, c) == Ge(c, 0) /\ Le(c, One)

\* The condition of the where() before grouping: summer, and 0 <= index <= 1.
InSeasonAndRange(t, c) == Season(t) = "JJA" /\ Ge(c, 0) /\ Le(c, One)

\* A selection that drops the acquisitions outside summer instead of
\* keeping them as NaN.
SeasonSelect(a) ==
    [t \in {u \in DOMAIN a : Season(u) = "JJA"} |->
        [p \in Pixels |-> IF Ge(a[t][p], 0) /\ Le(a[t][p], One) THEN a[t][p] ELSE NaN]]

\* a.where(cond): the same time index, NaN where the condition fails.
SeasonWhere(a) ==
    [t \in DOMAIN a |->
        [p \in Pixels |-> IF InSeasonAndRange(t, a[t][p]) THEN a[t][p] ELSE NaN]]

\* The values of pixel p over the acquisitions ts with a null read as zero.
ValuesOfZeroFill(a, ts, p) ==
    LET tc == Ascending(ts)
    IN  [i \in 1..Len(tc) |-> IF IsNull(a[tc[i]][p]) THEN Num(0) ELSE a[tc[i]][p]]

\* The non-null values of pixel p over the acquisitions ts, in time order.
ValuesOf(a, ts, p) ==
    LET tc == Ascending(ts)
        all == [i \in 1..Len(tc) |-> a[tc[i]][p]]
        notnull(c) == ~IsNull(c)
    IN  SelectSeq(all, notnull)

\* A median that takes the upper middle value instead of the mean of the two.
UpperMedian(vals) ==
    LET lt(x, y) == x.v < y.v
        s == SortSeq(vals, lt)
        n == Len(s)
    IN  IF n = 0 THEN NaN ELSE s[(n \div 2) + 1]

\* nanmedian: NaN of no value, the middle of the sorted values, the mean of
\* the two middle ones when their number is even.
NanMedian(vals) ==
    LET lt(x, y) == x.v < y.v
        s == SortSeq(vals, lt)
        n == Len(s)
    IN  IF n = 0 THEN NaN
        ELSE IF n % 2 = 1 THEN s[(n + 1) \div 2]
        ELSE Half(Add(s[n \div 2], s[(n \div 2) + 1]))

\* Group keys that are not made unique: one key per acquisition.
YearOfEachTime(a) ==
    LET tc == Ascending(DOMAIN a)
    IN  [i \in 1..Len(tc) |-> Year(tc[i])]

\* The group keys of groupby('time.year'): the distinct years of the time
\* index, sorted.
GroupYears(a) == Ascending({Year(t) : t \in DOMAIN a})

\* a.groupby('time.year').median(dim='time', skipna=True)
GroupbyYearMedian(a) ==
    LET ys == GroupYears(a)
    IN  [i \in 1..Len(ys) |->
            [year |-> ys[i],
             data |-> [p \in Pixels |->
                         NanMedian(ValuesOf(a, {t \in DOMAIN a : Year(t) = ys[i]}, p))]]]

----------------------------------------------------------------------------
(* Temporal difference *)

\* No raster: the value of a difference variable that was never assigned.
NoRaster == <<>>

\* Indexing that clamps an index past the end to the last position.
GetItemClamped(m, i) ==
    [ok |-> TRUE, data |-> m[IF i < Len(m) THEN i + 1 ELSE Len(m)].data]

\* Positional indexing m[i, :, :] with a non-negative literal i: the raster
\* at position i (0-based), or an IndexError when i is not below len(m).
GetItem(m, i) ==
    IF i < Len(m) THEN [ok |-> TRUE, data |-> m[i + 1].data]
    ELSE [ok |-> FALSE, data |-> NoRaster]

\* A subtraction that reads a missing operand as zero.
RasterSubZeroFill(x, y) ==
    [p \in Pixels |-> Num((IF x[p].nan THEN 0 ELSE x[p].v) - (IF y[p].nan THEN 0 ELSE y[p].v))]

RasterSub(x, y) == [p \in Pixels |-> Sub(x[p], y[p])]

RasterAdd(x, y) == [p \in Pixels |-> Add(x[p], y[p])]

RasterHalf(x) == [p \in Pixels |-> Half(x[p])]

\* m[i] - m[j]: the operands are indexed first; an IndexError yields no raster.
DiffOf(m, i, j) ==
    LET x == GetItem(m, i)
        y == GetItem(m, j)
    IN  IF x.ok /\ y.ok THEN [ok |-> TRUE, data |-> RasterSub(x.data, y.data)]
        ELSE [ok |-> FALSE, data |-> NoRaster]

\* ((m[i] + m[k]) / 2) - m[j]
AvgDiffOf(m, i, k, j) ==
    LET x == GetItem(m, i)
        z == GetItem(m, k)
        y == GetItem(m, j)
    IN  IF x.ok /\ z.ok /\ y.ok
        THEN [ok |-> TRUE, data |-> RasterSub(RasterHalf(RasterAdd(x.data, z.data)), y.data)]
        ELSE [ok |-> FALSE, data |-> NoRaster]

----------------------------------------------------------------------------
(* Sentinel-1: nodata and outlier filter, seasonal median *)

RECURSIVE ValuesAt(_, _)
\* The VH values of ds at the cells S (pairs of time and pixel), in any order.
ValuesAt(ds, S) ==
    IF S = {} THEN <<>>
    ELSE LET x == CHOOSE y \in S : TRUE
         IN  <<ds[x[1]][x[2]].VH>> \o ValuesAt(ds, S \ {x})

\* den * ds.VH.quantile(num / den): the quantile over all times and pixels,
\* linearly interpolated between the two nearest ranks.
Quantile(ds, num, den) ==
    LET lt(x, y) == x < y
        s == SortSeq(ValuesAt(ds, (DOMAIN ds) \X Pixels), lt)
        h == (Len(s) - 1) * num
        lo == h \div den
        fr == h % den
    IN  den * s[lo + 1] + (IF fr = 0 THEN 0 ELSE fr * (s[lo + 2] - s[lo + 1]))

\* ds.VH.where((VH != nodata) & (VH >= VH.quantile(0.05)) & (VH <= VH.quantile(0.95)))
FilterVH(ds, nd) ==
    LET q05 == Quantile(ds, 1, 20)
        q95 == Quantile(ds, 19, 20)
    IN  [t \in DOMAIN ds |->
            [p \in Pixels |->
                IF /\ ds[t][p].VH # nd
                   /\ 20 * ds[t][p].VH >= q05
                   /\ 20 * ds[t][p].VH <= q95
                THEN Num(ds[t][p].VH) ELSE NaN]]

\* a.where(a['time.season'] == 'JJA')
SummerWhere(a) ==
    [t \in DOMAIN a |-> [p \in Pixels |-> IF Season(t) = "JJA" THEN a[t][p] ELSE NaN]]

----------------------------------------------------------------------------
(* Loaded datasets *)

Cell(red, nir, qa) == [red |-> red, nir |-> nir, pixel_qa |-> qa]

\* The non-empty sets of at most k acquisition times out of S.
TimeSets(S, k) == {T \in SUBSET S : Cardinality(T) >= 1 /\ Cardinality(T) <= k}

\* The datasets over a time set of tsets whose cell at pixel p is one of cells[p].
Datasets(tsets, cells) ==
    UNION { [T -> {r \in [Pixels -> UNION {cells[p] : p \in Pixels}] :
                     \A p \in Pixels : r[p] \in cells[p]}] : T \in tsets }

\* pixel_qa words: clear, no data, confident cloud, snow, water, high sun zenith.
QAValues == {0, 1, 4, 16, 32, 1024}

Cloudy == 4

\* The nodata attribute of the VH band.
nodata == 0 - 9999

\* A Sentinel-1 cell with VH backscatter x: both bands are nodata together,
\* and zero together.
VHCell(x) == [VV |-> IF x = nodata \/ x = 0 THEN x ELSE 0 - 8, VH |-> x]

\* A Sentinel-1 dataset of three years, and clear optical datasets of three years.
FixedS1 ==
    [t \in {201707, 201807, 201907} |->
        [p \in Pixels |-> VHCell(IF p = "p1" /\ t = 201807 THEN 0 - 12
                                 ELSE IF p = "p1" /\ t = 201907 THEN 0 - 20
                                 ELSE 0 - 16)]]

FixedS2 == [t \in {201707, 201807, 201907} |-> [p \in Pixels |-> Cell(1, 3, 0)]]

FixedL8 == [t \in {201706} |-> [p \in Pixels |-> Cell(1, 1, 0)]]

Sensors == {"s2", "l8"}

\* Products whose pixel_qa defines all the flags, or lacks some of them.
FlagVocabularies ==
    {DOMAIN FlagsDefinition,
     DOMAIN FlagsDefinition \ {"high_sun_zenith_flag"},
     DOMAIN FlagsDefinition \ {"snow_flag", "subzero_flag"},
     DOMAIN FlagsDefinition \ {"water_flag"}}

\* Fixed datasets of products with any of the flag vocabularies.
LoadVocabularyCase ==
    /\ ds_s2 = FixedS2
    /\ ds_l8 = FixedL8
    /\ flags_def \in [Sensors -> FlagVocabularies]
    /\ ds_s1_asc = FixedS1

\* Flag stacks of every kind over one or two acquisitions, a fixed second sensor.
LoadFlagsCase ==
    /\ ds_s2 \in Datasets(TimeSets({201707, 201710}, MaxObs),
                          [p \in Pixels |-> {Cell(1, 3, q) : q \in QAValues}])
    /\ ds_l8 \in Datasets({{201807}}, [p \in Pixels |-> {Cell(1, 1, 0)}])
    /\ flags_def = [k \in Sensors |-> DOMAIN FlagsDefinition]
    /\ ds_s1_asc = FixedS1

\* Two sensors whose acquisition times coincide or not, with clear, cloudy
\* and zero-band cells.
LoadMergeCase ==
    /\ ds_s2 \in Datasets(TimeSets({201707, 201807}, MaxObs),
                          [p \in Pixels |-> {Cell(1, 3, 0), Cell(0, 0, 0), Cell(1, 1, Cloudy)}])
    /\ ds_l8 \in Datasets(TimeSets({201707, 201807}, MaxObs),
                          [p \in Pixels |-> {Cell(0, 1, 0), Cell(1, 3, Cloudy)}])
    /\ flags_def = [k \in Sensors |-> DOMAIN FlagsDefinition]
    /\ ds_s1_asc = FixedS1

\* Up to MaxObs acquisitions of the first sensor over three years, in and out
\* of summer, with indices inside and outside [0, 1]; one acquisition of the
\* second sensor in June 2017.
LoadSeriesCase ==
    /\ ds_s2 \in Datasets(TimeSets(Times, MaxObs),
                          [p \in Pixels |->
                              IF p = "p1"
                              THEN {Cell(1, 3, 0), Cell(3, 1, 0), Cell(1, 1, Cloudy)}
                              ELSE {Cell(1, 1, 0), Cell(1, 3, Cloudy)}])
    /\ ds_l8 \in Datasets({{201706}},
                          [p \in Pixels |-> IF p = "p1" THEN {Cell(1, 1, 0)} ELSE {Cell(-1, 3, 0)}])
    /\ flags_def = [k \in Sensors |-> DOMAIN FlagsDefinition]
    /\ ds_s1_asc = FixedS1

\* Sentinel-1 acquisitions in and out of summer with nodata, low, high and
\* zero backscatter, next to one fixed acquisition of summer 2018.
LoadSarCase ==
    /\ ds_s2 = FixedS2
    /\ ds_l8 = FixedL8
    /\ flags_def = [k \in Sensors |-> DOMAIN FlagsDefinition]
    /\ \E d \in Datasets(TimeSets({201707, 201708, 201710, 201907}, MaxObs),
                         [p \in Pixels |->
                             IF p = "p1"
                             THEN {VHCell(nodata), VHCell(0 - 20), VHCell(0 - 12)}
                             ELSE {VHCell(0 - 16), VHCell(0)}]) :
        ds_s1_asc = [t \in DOMAIN d \cup {201807} |->
                        IF t \in DOMAIN d THEN d[t] ELSE [p \in Pixels |-> VHCell(0 - 16)]]

----------------------------------------------------------------------------
(* The notebook, statement by statement *)

Unset == <<>>

\* No observation-count notebook is being run.
CountIdle ==
    /\ product = "none"
    /\ ds_obs = Unset
    /\ chunk_y = 0 /\ chunk_x = 0
    /\ task = Unset /\ mask_block = Unset /\ count_block = Unset
    /\ count = Unset
    /\ reads = Unset /\ writes = Unset

Init ==
    /\ CountIdle
    /\ \/ LoadFlagsCase
       \/ LoadMergeCase
       \/ LoadSeriesCase
       \/ LoadSarCase
       \/ LoadVocabularyCase
    /\ mask_s2 = Unset /\ mask_l8 = Unset
    /\ s2 = Unset /\ l8 = Unset
    /\ s2_l8_ind = Unset /\ s2_l8_ind_spy = Unset
    /\ mpspy = Unset
    /\ diff_18 = NoRaster /\ diff_19 = NoRaster /\ diff_1819 = NoRaster
    /\ vh_asc = Unset /\ mpspy_vh_asc = Unset /\ diff_1819_vh_asc = NoRaster
    /\ err = "none"
    /\ pc = "make_mask"

\* mask_s2 = masking.make_mask(ds_s2.pixel_qa, **flags); likewise mask_l8.
\* The first statement that names an unknown flag raises and ends the cell.
MakeMask ==
    /\ pc = "make_mask"
    /\ IF ~KnowsFlags(flags_def["s2"], flags)
       THEN /\ err' = "ValueError"
            /\ pc' = "failed"
            /\ UNCHANGED <<mask_s2, mask_l8>>
       ELSE IF ~KnowsFlags(flags_def["l8"], flags)
       THEN /\ mask_s2' = make_mask(ds_s2, flags)
            /\ err' = "ValueError"
            /\ pc' = "failed"
            /\ UNCHANGED mask_l8
       ELSE /\ mask_s2' = make_mask(ds_s2, flags)
            /\ mask_l8' = make_mask(ds_l8, flags)
            /\ pc' = "where"
            /\ UNCHANGED err
    /\ UNCHANGED <<count_vars, ds_s2, ds_l8, flags_def, s2, l8, s2_l8_ind, s2_l8_ind_spy, mpspy,
                   diff_18, diff_19, diff_1819, sar_vars>>

\* s2 = ds_s2.where(mask_s2); l8 = ds_l8.where(mask_l8)
ApplyMask ==
    /\ pc = "where"
    /\ s2' = where(ds_s2, mask_s2)
    /\ l8' = where(ds_l8, mask_l8)
    /\ pc' = "optical"
    /\ UNCHANGED <<count_vars, ds_s2, ds_l8, flags_def, mask_s2, mask_l8, s2_l8_ind, s2_l8_ind_spy, mpspy,
                   diff_18, diff_19, diff_1819, err, sar_vars>>

\* bandindices.optical(s2, ..., inplace=True); bandindices.optical(l8, ...)
AddIndices ==
    /\ pc = "optical"
    /\ s2' = optical(s2)
    /\ l8' = optical(l8)
    /\ pc' = "combine_first"
    /\ UNCHANGED <<count_vars, ds_s2, ds_l8, flags_def, mask_s2, mask_l8, s2_l8_ind, s2_l8_ind_spy, mpspy,
                   diff_18, diff_19, diff_1819, err, sar_vars>>

\* s2_l8_ind = s2_ind.combine_first(l8_ind)
CombineFirst ==
    /\ pc = "combine_first"
    /\ s2_l8_ind' = combine_first(IndexOf(s2), IndexOf(l8))
    /\ pc' = "season"
    /\ UNCHANGED <<count_vars, ds_s2, ds_l8, flags_def, mask_s2, mask_l8, s2, l8, s2_l8_ind_spy, mpspy,
                   diff_18, diff_19, diff_1819, err, sar_vars>>

\* s2_l8_ind_spy = s2_l8_ind.where(season == 'JJA' & ind >= 0 & ind <= 1)
SeasonFilter ==
    /\ pc = "season"
    /\ s2_l8_ind_spy' = SeasonWhere(s2_l8_ind)
    /\ pc' = "median"
    /\ UNCHANGED <<count_vars, ds_s2, ds_l8, flags_def, mask_s2, mask_l8, s2, l8, s2_l8_ind, mpspy,
                   diff_18, diff_19, diff_1819, err, sar_vars>>

\* mpspy = s2_l8_ind_spy.groupby('time.year').median(dim='time', skipna=True)
Median ==
    /\ pc = "median"
    /\ mpspy' = GroupbyYearMedian(s2_l8_ind_spy)
    /\ pc' = "diff_18"
    /\ UNCHANGED <<count_vars, ds_s2, ds_l8, flags_def, mask_s2, mask_l8, s2, l8, s2_l8_ind, s2_l8_ind_spy,
                   diff_18, diff_19, diff_1819, err, sar_vars>>

\* diff_18 = mpspy[1,:,:] - mpspy[0,:,:]
Diff18 ==
    /\ pc = "diff_18"
    /\ LET r == DiffOf(mpspy, 1, 0)
       IN  /\ diff_18' = r.data
           /\ err' = IF r.ok THEN err ELSE "IndexError"
           /\ pc' = IF r.ok THEN "diff_19" ELSE "failed"
    /\ UNCHANGED <<count_vars, ds_s2, ds_l8, flags_def, mask_s2, mask_l8, s2, l8, s2_l8_ind, s2_l8_ind_spy,
                   mpspy, diff_19, diff_1819, sar_vars>>

\* diff_19 = mpspy[2,:,:] - mpspy[0,:,:]
Diff19 ==
    /\ pc = "diff_19"
    /\ LET r == DiffOf(mpspy, 2, 0)
       IN  /\ diff_19' = r.data
           /\ err' = IF r.ok THEN err ELSE "IndexError"
           /\ pc' = IF r.ok THEN "diff_1819" ELSE "failed"
    /\ UNCHANGED <<count_vars, ds_s2, ds_l8, flags_def, mask_s2, mask_l8, s2, l8, s2_l8_ind, s2_l8_ind_spy,
                   mpspy, diff_18, diff_1819, sar_vars>>

\* diff_1819 = ((mpspy[2,:,:] + mpspy[1,:,:]) / 2) - mpspy[0,:,:]
Diff1819 ==
    /\ pc = "diff_1819"
    /\ LET r == AvgDiffOf(mpspy, 2, 1, 0)
       IN  /\ diff_1819' = r.data
           /\ err' = IF r.ok THEN err ELSE "IndexError"
           /\ pc' = IF r.ok THEN "sar" ELSE "failed"
    /\ UNCHANGED <<count_vars, ds_s2, ds_l8, flags_def, mask_s2, mask_l8, s2, l8, s2_l8_ind, s2_l8_ind_spy,
                   mpspy, diff_18, diff_19, sar_vars>>

optical_vars == <<ds_s2, ds_l8, flags_def, mask_s2, mask_l8, s2, l8, s2_l8_ind, s2_l8_ind_spy,
                  mpspy, diff_18, diff_19, diff_1819>>

\* bandindices.sar(ds_s1_asc, index=["VVVH", "VHVV"], inplace=True, drop=False)
AddIndicesSAR ==
    /\ pc = "sar"
    /\ ds_s1_asc' = sar(ds_s1_asc)
    /\ pc' = "sar_where"
    /\ UNCHANGED <<count_vars, optical_vars, vh_asc, mpspy_vh_asc, diff_1819_vh_asc, err>>

\* vh_asc = ds_s1_asc.VH.where((VH != nodata) & (VH >= q05) & (VH <= q95))
WhereVH ==
    /\ pc = "sar_where"
    /\ vh_asc' = FilterVH(ds_s1_asc, nodata)
    /\ pc' = "sar_median"
    /\ UNCHANGED <<count_vars, optical_vars, ds_s1_asc, mpspy_vh_asc, diff_1819_vh_asc, err>>

\* mpspy_vh_asc = vh_asc.where(season == 'JJA').groupby('time.year').median(...)
MedianVH ==
    /\ pc = "sar_median"
    /\ mpspy_vh_asc' = GroupbyYearMedian(SummerWhere(vh_asc))
    /\ pc' = "sar_diff"
    /\ UNCHANGED <<count_vars, optical_vars, ds_s1_asc, vh_asc, diff_1819_vh_asc, err>>

\* diff_1819_vh_asc = ((mpspy_vh_asc[2] + mpspy_vh_asc[1]) / 2) - mpspy_vh_asc[0]
Diff1819VH ==
    /\ pc = "sar_diff"
    /\ LET r == AvgDiffOf(mpspy_vh_asc, 2, 1, 0)
       IN  /\ diff_1819_vh_asc' = r.data
           /\ err' = IF r.ok THEN err ELSE "IndexError"
           /\ pc' = IF r.ok THEN "done" ELSE "failed"
    /\ UNCHANGED <<count_vars, optical_vars, ds_s1_asc, vh_asc, mpspy_vh_asc>>

Next ==
    \/ MakeMask
    \/ ApplyMask
    \/ AddIndices
    \/ CombineFirst
    \/ SeasonFilter
    \/ Median
    \/ Diff18
    \/ Diff19
    \/ Diff1819
    \/ AddIndicesSAR
    \/ WhereVH
    \/ MedianVH
    \/ Diff1819VH

Spec == Init /\ [][Next]_vars

----------------------------------------------------------------------------
(* Positions of the notebook *)

\* The masks have just been made; the series have just been merged.
MaskMade == pc = "where"

JustMerged == pc = "season"

JustAggregated == pc = "diff_18"

\* The optical differences have just been made; the Sentinel-1 composites
\* have just been made.
OpticalDone == pc = "sar"

SarAggregated == pc = "sar_diff"

\* The index series of the two sensors, as the merge reads them.
s2_ind == IndexOf(s2)

l8_ind == IndexOf(l8)

----------------------------------------------------------------------------
(* QualityMask *)

\* The code of flag k in a pixel_qa word, and the word with that flag set to c.
Field(qa, k) == (qa \div Pow2(FlagsDefinition[k].low)) % Pow2(FlagsDefinition[k].width)

SetField(qa, k, c) ==
    qa - Field(qa, k) * Pow2(FlagsDefinition[k].low) + c * Pow2(FlagsDefinition[k].low)

Required(fl, k) == FlagsDefinition[k].values[fl[k]]

\* Every predicate of the set fl holds for the word qa.
AllHold(qa, fl) == \A k \in DOMAIN fl : Field(qa, k) = Required(fl, k)

\* Changing any one required flag of a valid word makes it invalid.
FlipInvalidates(qa, fl) ==
    \A k \in DOMAIN fl :
        \A c \in 0..(Pow2(FlagsDefinition[k].width) - 1) :
            c # Required(fl, k) => ~MaskCell(SetField(qa, k, c), fl)

MaskRight(ds, mask, fl) ==
    /\ DOMAIN mask = DOMAIN ds
    /\ \A t \in DOMAIN ds :
        /\ DOMAIN mask[t] = DOMAIN ds[t]
        /\ \A p \in DOMAIN ds[t] :
            /\ mask[t][p] = AllHold(ds[t][p].pixel_qa, fl)
            /\ mask[t][p] => FlipInvalidates(ds[t][p].pixel_qa, fl)

\* C1: the mask of a flag stack has the stack's shape and is valid at a
\* pixel-timestamp exactly when every predicate of the set holds for its
\* flags; changing one required flag of a valid pixel-timestamp makes it
\* invalid.  Checked for the masks of both sensors and, cell by cell, for
\* the predicate set of the observation-count notebook.
C1_MaskIffAllPredicatesHold ==
    MaskMade =>
        /\ MaskRight(ds_s2, mask_s2, flags)
        /\ MaskRight(ds_l8, mask_l8, flags)
        /\ MaskRight(ds_s2, make_mask(ds_s2, flags_obs), flags_obs)

\* A mask with a valid cell whose word has a flag outside the predicate set
\* (water) set, and an invalid cell.
C1_Witness ==
    /\ pc = "where"
    /\ \E t \in DOMAIN ds_s2 : \E p \in Pixels :
        mask_s2[t][p] /\ ds_s2[t][p].pixel_qa = 32
    /\ \E t \in DOMAIN ds_s2 : \E p \in Pixels : ~mask_s2[t][p]

----------------------------------------------------------------------------
(* CrossSensorMerge *)

OnlyInSecondary == DOMAIN l8_ind \ DOMAIN s2_ind

InBoth == DOMAIN s2_ind \cap DOMAIN l8_ind

\* C2 as stated: only-in-B timestamps carry B's value, and timestamps in both
\* carry A's value at every pixel, whatever B holds.
C2_Original ==
    JustMerged =>
        /\ \A t \in OnlyInSecondary : \A p \in Pixels : s2_l8_ind[t][p] = l8_ind[t][p]
        /\ \A t \in InBoth : \A p \in Pixels : s2_l8_ind[t][p] = s2_ind[t][p]

\* C2 (amended): only-in-B timestamps carry B's value; at a timestamp in
\* both, a pixel where A has an observation carries A's value whatever B
\* holds, and a pixel where A has no observation carries B's value.
C2_PrimaryPrecedenceWhereObserved ==
    JustMerged =>
        /\ \A t \in OnlyInSecondary : \A p \in Pixels : s2_l8_ind[t][p] = l8_ind[t][p]
        /\ \A t \in InBoth : \A p \in Pixels :
            /\ ~IsNull(s2_ind[t][p]) => s2_l8_ind[t][p] = s2_ind[t][p]
            /\ IsNull(s2_ind[t][p]) => s2_l8_ind[t][p] = l8_ind[t][p]

\* A merge with a timestamp only in B, and a shared timestamp where both
\* sensors observed different values at one pixel and only B observed another.
C2_Witness ==
    /\ pc = "season"
    /\ OnlyInSecondary # {}
    /\ \E t \in InBoth : \E p, q \in Pixels :
        /\ ~IsNull(s2_ind[t][p]) /\ ~IsNull(l8_ind[t][p]) /\ s2_ind[t][p] # l8_ind[t][p]
        /\ IsNull(s2_ind[t][q]) /\ ~IsNull(l8_ind[t][q])

\* An observation of series a at (t, p).
Observed(a, t, p) == t \in DOMAIN a /\ ~IsNull(a[t][p])

\* C3: the merged timestamps are the union of both inputs' timestamps; each
\* pixel-timestamp carries the primary's value when the primary observed it,
\* otherwise the secondary's value at that same timestamp, and is "no
\* observation" exactly when neither observed it.
C3_MergeUnionPrimaryElseSecondary ==
    JustMerged =>
        /\ DOMAIN s2_l8_ind = DOMAIN s2_ind \cup DOMAIN l8_ind
        /\ \A t \in DOMAIN s2_l8_ind : \A p \in Pixels :
            /\ Observed(s2_ind, t, p) => s2_l8_ind[t][p] = s2_ind[t][p]
            /\ ~Observed(s2_ind, t, p) /\ Observed(l8_ind, t, p) => s2_l8_ind[t][p] = l8_ind[t][p]
            /\ IsNull(s2_l8_ind[t][p]) <=> ~Observed(s2_ind, t, p) /\ ~Observed(l8_ind, t, p)

\* A merge with a timestamp of each sensor alone and a cell nobody observed.
C3_Witness ==
    /\ pc = "season"
    /\ OnlyInSecondary # {}
    /\ DOMAIN s2_ind \ DOMAIN l8_ind # {}
    /\ \E t \in DOMAIN s2_l8_ind : \E p \in Pixels : IsNull(s2_l8_ind[t][p])
    /\ \E t \in DOMAIN s2_l8_ind : \E p \in Pixels :
        ~Observed(s2_ind, t, p) /\ Observed(l8_ind, t, p)

----------------------------------------------------------------------------
(* SeasonalAggregator *)

\* The target season window: June, July, August.
InSummer(t) == Month(t) \in 6..8

\* The acquisitions of year y in the season at which pixel p of series a has
\* an observation; those of them whose value lies in [0, 1].
SeasonObs(a, y, p) ==
    {t \in DOMAIN a : Year(t) = y /\ InSummer(t) /\ ~IsNull(a[t][p])}

SeasonObsInRange(a, y, p) ==
    {t \in SeasonObs(a, y, p) : a[t][p].v >= 0 /\ a[t][p].v <= One}

\* The k-th smallest of the values of pixel p at the acquisitions T: the
\* value with fewer than k values below it and at least k not above it.
Kth(a, T, p, k) ==
    CHOOSE x \in {a[t][p].v : t \in T} :
        /\ Cardinality({t \in T : a[t][p].v < x}) < k
        /\ Cardinality({t \in T : a[t][p].v <= x}) >= k

\* The median of the values of pixel p at the acquisitions T, by rank.
MedianOver(a, T, p) ==
    LET n == Cardinality(T)
    IN  IF n = 0 THEN NaN
        ELSE IF n % 2 = 1 THEN Num(Kth(a, T, p, (n + 1) \div 2))
        ELSE Num((Kth(a, T, p, n \div 2) + Kth(a, T, p, (n \div 2) + 1)) \div 2)

\* Each composite value of m is the median of all observations of series a
\* at the pixel in the season of the year, and that observation's value when
\* there is exactly one.
MedianOfSeasonObs(m, a) ==
    \A i \in DOMAIN m : \A p \in Pixels :
        LET T == SeasonObs(a, m[i].year, p)
        IN  /\ m[i].data[p] = MedianOver(a, T, p)
            /\ \A t \in T : T = {t} => m[i].data[p] = a[t][p]

\* C4 as stated: each composite value is the median of all observations of
\* the pixel in the season of the year, none further excluded, on the optical
\* and on the Sentinel-1 path.
C4_Original ==
    /\ JustAggregated => MedianOfSeasonObs(mpspy, s2_l8_ind)
    /\ SarAggregated => MedianOfSeasonObs(mpspy_vh_asc, vh_asc)

\* C4 (amended): each composite value of the optical path is the median of
\* the observations of the pixel in the season of the year whose index value
\* lies in [0, 1]; each composite value of the Sentinel-1 path is the median
\* of all observations of the filtered series in the season of the year;
\* with exactly one such observation it is that value.
C4_MedianOfInRangeSeasonObs ==
    /\ JustAggregated =>
        \A i \in DOMAIN mpspy : \A p \in Pixels :
            LET T == SeasonObsInRange(s2_l8_ind, mpspy[i].year, p)
            IN  /\ mpspy[i].data[p] = MedianOver(s2_l8_ind, T, p)
                /\ \A t \in T : T = {t} => mpspy[i].data[p] = s2_l8_ind[t][p]
    /\ SarAggregated => MedianOfSeasonObs(mpspy_vh_asc, vh_asc)

\* Composites with a group of three unequal observations, a group of exactly
\* one, and a group whose only observation lies outside [0, 1].
C4_Witness ==
    /\ JustAggregated
    /\ \E i \in DOMAIN mpspy : \E p \in Pixels :
        LET T == SeasonObsInRange(s2_l8_ind, mpspy[i].year, p)
        IN  Cardinality(T) = 3 /\ Cardinality({s2_l8_ind[t][p].v : t \in T}) > 1
    /\ \E i \in DOMAIN mpspy : \E p \in Pixels :
        Cardinality(SeasonObsInRange(s2_l8_ind, mpspy[i].year, p)) = 1
    /\ \E i \in DOMAIN mpspy : \E p \in Pixels :
        /\ SeasonObs(s2_l8_ind, mpspy[i].year, p) # {}
        /\ SeasonObsInRange(s2_l8_ind, mpspy[i].year, p) = {}

InputYears == {Year(t) : t \in DOMAIN s2_l8_ind}

\* Every year of the timestamps of series a has its composite in m, and a
\* pixel without an observation in a group is "no observation" there.
EmptyIsMissingAndEmitted(m, a) ==
    /\ \A y \in {Year(t) : t \in DOMAIN a} : \E i \in DOMAIN m : m[i].year = y
    /\ \A i \in DOMAIN m : \A p \in Pixels :
        SeasonObs(a, m[i].year, p) = {} => m[i].data[p] = NaN

ProbeValues == {NaN, Num(0), Num(4), Num(One), Num(0 - 16)}

\* C6: changing the value of an observation outside the season window
\* leaves every per-year composite unchanged.
C6_OutOfSeasonNeverContributes ==
    /\ JustAggregated =>
        \A t \in DOMAIN s2_l8_ind : \A p \in Pixels : \A c \in ProbeValues :
            ~InSummer(t) =>
                GroupbyYearMedian(SeasonWhere([s2_l8_ind EXCEPT ![t][p] = c])) = mpspy
    /\ SarAggregated =>
        \A t \in DOMAIN vh_asc : \A p \in Pixels : \A c \in ProbeValues :
            ~InSummer(t) =>
                GroupbyYearMedian(SummerWhere([vh_asc EXCEPT ![t][p] = c])) = mpspy_vh_asc

\* Composites of a series with an observation in [0, 1] outside the season,
\* in a year that has an observation in the season too.
C6_Witness ==
    /\ JustAggregated
    /\ \E t \in DOMAIN s2_l8_ind : \E p \in Pixels :
        /\ ~InSummer(t)
        /\ Ge(s2_l8_ind[t][p], 0) /\ Le(s2_l8_ind[t][p], One)
        /\ SeasonObsInRange(s2_l8_ind, Year(t), p) # {}

\* m holds one composite per year of the timestamps of a, in ascending order.
OnePerYearAscending(m, a) ==
    /\ Len(m) = Cardinality({Year(t) : t \in DOMAIN a})
    /\ \A i \in DOMAIN m : m[i].year \in {Year(t) : t \in DOMAIN a}
    /\ \A i, j \in DOMAIN m : i < j => m[i].year < m[j].year

----------------------------------------------------------------------------
(* TemporalDiff *)

\* The result is "no observation" exactly where an operand is.
Propagates(d, m, operands) ==
    \A p \in Pixels : IsNull(d[p]) <=> \E i \in operands : IsNull(m[i + 1].data[p])

\* C8: in the subtraction form and in the averaging form, the result at a
\* pixel is "no observation" when an operand is, and a value when every
\* operand has one.
C8_MissingOperandPropagates ==
    /\ diff_18 # NoRaster => Propagates(diff_18, mpspy, {1, 0})
    /\ diff_19 # NoRaster => Propagates(diff_19, mpspy, {2, 0})
    /\ diff_1819 # NoRaster => Propagates(diff_1819, mpspy, {2, 1, 0})
    /\ diff_1819_vh_asc # NoRaster => Propagates(diff_1819_vh_asc, mpspy_vh_asc, {2, 1, 0})

\* All three differences made, with a pixel missing in one operand only and
\* a pixel with a value in every operand.
C8_Witness ==
    /\ OpticalDone
    /\ \E p \in Pixels :
        /\ IsNull(mpspy[2].data[p]) /\ ~IsNull(mpspy[1].data[p]) /\ ~IsNull(mpspy[3].data[p])
    /\ \E p \in Pixels : ~IsNull(diff_18[p]) /\ ~IsNull(diff_19[p]) /\ ~IsNull(diff_1819[p])

\* C9: a statement that references a year position outside the composites
\* fails with an IndexError and leaves its difference raster unmade; the
\* statements whose positions are all in range make theirs.
C9_OutOfRangeIsIndexError ==
    /\ pc = "diff_19" => Len(mpspy) >= 2 /\ diff_18 # NoRaster /\ err = "none"
    /\ pc \in {"diff_1819", "sar"} =>
        Len(mpspy) >= 3 /\ diff_19 # NoRaster /\ err = "none"
    /\ pc = "sar" => diff_1819 # NoRaster
    /\ pc = "failed" /\ mpspy # Unset /\ mpspy_vh_asc = Unset =>
        /\ err = "IndexError"
        /\ Len(mpspy) < 3
        /\ diff_19 = NoRaster /\ diff_1819 = NoRaster
        /\ Len(mpspy) < 2 <=> diff_18 = NoRaster
    /\ pc = "failed" /\ mpspy_vh_asc # Unset =>
        /\ err = "IndexError"
        /\ Len(mpspy_vh_asc) < 3
        /\ diff_1819_vh_asc = NoRaster
    /\ pc = "done" => Len(mpspy_vh_asc) >= 3 /\ diff_1819_vh_asc # NoRaster /\ err = "none"
    /\ err = "IndexError" => pc = "failed" /\ mpspy # Unset

\* A run of two composites: 2018 - 2017 is made, then position 2 fails.
C9_Witness ==
    /\ pc = "failed"
    /\ Len(mpspy) = 2
    /\ diff_18 # NoRaster

----------------------------------------------------------------------------
(* End to end *)

\* The index of a loaded cell computed by hand: defined when the cell passes
\* every flag predicate and its bands do not sum to zero.
HandObserved(c) == AllHold(c.pixel_qa, flags) /\ c.nir + c.red # 0

HandIndex(c) == Num((One * (c.nir - c.red)) \div (c.nir + c.red))

\* The two-sensor series by hand: at each acquisition of either sensor the
\* first sensor's index where it observed the pixel, else the second's.
HandSeries ==
    [t \in DOMAIN ds_s2 \cup DOMAIN ds_l8 |->
        [p \in Pixels |->
            IF t \in DOMAIN ds_s2 /\ HandObserved(ds_s2[t][p]) THEN HandIndex(ds_s2[t][p])
            ELSE IF t \in DOMAIN ds_l8 /\ HandObserved(ds_l8[t][p]) THEN HandIndex(ds_l8[t][p])
            ELSE NaN]]

HandDiff(x, y) == IF x = NaN \/ y = NaN THEN NaN ELSE Num(x.v - y.v)

\* A day of sensor ds on which every pixel fails the flag predicates.
HasMaskedDay(ds) ==
    \E t \in DOMAIN ds : \A p \in Pixels : ~AllHold(ds[t][p].pixel_qa, flags)

\* A finished run on a two-sensor series that covers 2017 to 2019 and holds
\* a fully masked day.
ThreeYearScenario ==
    /\ OpticalDone
    /\ {Year(t) : t \in DOMAIN ds_s2 \cup DOMAIN ds_l8} = {2017, 2018, 2019}
    /\ HasMaskedDay(ds_s2) \/ HasMaskedDay(ds_l8)

\* C10 as stated: the differences are the year's median of all valid
\* in-season values minus the 2017 median, and positions 0, 1, 2 are the
\* 2017, 2018, 2019 composites.
C10_Original ==
    ThreeYearScenario =>
        LET h == HandSeries
            med(y, p) == MedianOver(h, SeasonObs(h, y, p), p)
        IN  /\ mpspy[1].year = 2017 /\ mpspy[2].year = 2018 /\ mpspy[3].year = 2019
            /\ \A p \in Pixels :
                /\ diff_18[p] = HandDiff(med(2018, p), med(2017, p))
                /\ diff_19[p] = HandDiff(med(2019, p), med(2017, p))

\* C10 (amended): the differences are the year's median of the valid
\* in-season values that lie in [0, 1] minus the 2017 median of such values,
\* and positions 0, 1, 2 are the 2017, 2018, 2019 composites.
C10_EndToEndDiffOfInRangeMedians ==
    ThreeYearScenario =>
        LET h == HandSeries
            med(y, p) == MedianOver(h, SeasonObsInRange(h, y, p), p)
        IN  /\ mpspy[1].year = 2017 /\ mpspy[2].year = 2018 /\ mpspy[3].year = 2019
            /\ \A p \in Pixels :
                /\ diff_18[p] = HandDiff(med(2018, p), med(2017, p))
                /\ diff_19[p] = HandDiff(med(2019, p), med(2017, p))

\* A finished three-year run with a summer day masked at every pixel and a
\* pixel whose two differences are nonzero values.
C10_Witness ==
    /\ ThreeYearScenario
    /\ \E t \in DOMAIN ds_s2 :
        InSummer(t) /\ \A p \in Pixels : ~AllHold(ds_s2[t][p].pixel_qa, flags)
    /\ \E p \in Pixels :
        /\ ~IsNull(diff_18[p]) /\ diff_18[p].v # 0
        /\ ~IsNull(diff_19[p]) /\ diff_19[p].v # 0

----------------------------------------------------------------------------
(* IndexCompute on zero bands *)

\* Both bands of the masked dataset ds are zero at acquisition t and pixel p.
ZeroBands(ds, t, p) ==
    /\ t \in DOMAIN ds
    /\ ds[t][p].red = Num(0)
    /\ ds[t][p].nir = Num(0)

\* Sensor ds contributes no index value at acquisition t and pixel p: it has
\* no acquisition then, the pixel is masked, or both bands are zero.
NoIndexFrom(ds, t, p) ==
    \/ t \notin DOMAIN ds
    \/ IsNull(ds[t][p].red)
    \/ ZeroBands(ds, t, p)

\* The indices have just been added to the optical datasets, to the
\* Sentinel-1 dataset.
IndicesAdded == pc = "combine_first"

SarIndicesAdded == pc = "sar_where"

----------------------------------------------------------------------------
(* QualityMask with an unknown flag *)

\* The mask statements have run (or the cell was left at one of them).
PastMakeMask == pc # "make_mask"

\* A predicate key of the set fl is not defined by the sensor's pixel_qa.
UnknownFlag(sensor, fl) == \E k \in DOMAIN fl : k \notin flags_def[sensor]

\* No statement after the failing one has run.
NothingDownstream ==
    /\ s2 = Unset /\ l8 = Unset
    /\ s2_l8_ind = Unset /\ mpspy = Unset /\ vh_asc = Unset

\* make_mask fails with the error kind e, at the statement itself, and
\* leaves no mask of the stack it failed on.
UnknownFlagFailsWith(e) ==
    PastMakeMask =>
        /\ UnknownFlag("s2", flags) =>
            /\ pc = "failed" /\ err = e
            /\ mask_s2 = Unset /\ mask_l8 = Unset
            /\ NothingDownstream
        /\ ~UnknownFlag("s2", flags) /\ UnknownFlag("l8", flags) =>
            /\ pc = "failed" /\ err = e
            /\ mask_s2 = make_mask(ds_s2, flags) /\ mask_l8 = Unset
            /\ NothingDownstream
        /\ ~UnknownFlag("s2", flags) /\ ~UnknownFlag("l8", flags) =>
            /\ err # e
            /\ mask_s2 # Unset /\ mask_l8 # Unset

\* C12 as stated: the failure is a ConfigurationError.
C12_Original == UnknownFlagFailsWith("ConfigurationError")

\* C12 (amended): when a predicate key names a flag that is absent from the
\* flag stack's vocabulary, make_mask fails with a ValueError, raised at the
\* make_mask statement before any pixel is evaluated and without producing
\* a mask of that stack.
C12_UnknownFlagIsValueError == UnknownFlagFailsWith("ValueError")

\* The second stack lacks a flag of the predicate set: its statement failed
\* after the first stack's mask was made.
C12_Witness ==
    /\ pc = "failed" /\ err = "ValueError"
    /\ ~UnknownFlag("s2", flags) /\ UnknownFlag("l8", flags)
    /\ mask_s2 # Unset /\ mask_l8 = Unset

----------------------------------------------------------------------------
(* Immutability of the series *)

\* A step leaves the series x as it was, once x has been assigned.
Kept(x, xnext) == x # Unset => xnext = x

\* C13: every transform returns a new series and leaves its inputs as they
\* were: no step changes the variables or the values of a loaded dataset or
\* of a series that an earlier statement has assigned.
C13_TransformsLeaveInputsUnchanged ==
    [][/\ ds_s2' = ds_s2 /\ ds_l8' = ds_l8 /\ ds_s1_asc' = ds_s1_asc
       /\ Kept(mask_s2, mask_s2') /\ Kept(mask_l8, mask_l8')
       /\ Kept(s2, s2') /\ Kept(l8, l8')
       /\ Kept(s2_l8_ind, s2_l8_ind') /\ Kept(s2_l8_ind_spy, s2_l8_ind_spy')
       /\ Kept(mpspy, mpspy')
       /\ Kept(vh_asc, vh_asc') /\ Kept(mpspy_vh_asc, mpspy_vh_asc')]_vars

----------------------------------------------------------------------------
(* Stage ordering *)

\* The cell c carries the index variable named k.
HasIndex(c, k) == k \in DOMAIN c

\* C14: on the optical and on the Sentinel-1 path the validity masking of a
\* band stack precedes the index computation: every index value there is was
\* computed from a masked stack, so an invalid pixel-timestamp (flag
\* predicates not met, or VH equal to nodata) has no index value.
C14_MaskingPrecedesIndex ==
    /\ \A t \in DOMAIN s2 : \A p \in Pixels :
        HasIndex(s2[t][p], "NDVI") /\ ~mask_s2[t][p] => IsNull(s2[t][p].NDVI)
    /\ \A t \in DOMAIN l8 : \A p \in Pixels :
        HasIndex(l8[t][p], "NDVI") /\ ~mask_l8[t][p] => IsNull(l8[t][p].NDVI)
    /\ \A t \in DOMAIN ds_s1_asc : \A p \in Pixels :
        HasIndex(ds_s1_asc[t][p], "VVVH") /\ ds_s1_asc[t][p].VH = nodata =>
            IsNull(ds_s1_asc[t][p].VVVH)

----------------------------------------------------------------------------
(* Pixel independence *)

\* The Sentinel-1 series has just been filtered.
SarFiltered == pc = "sar_median"

\* Other cells and other backscatter values a pixel may hold instead.
OtherCells == {Cell(3, 1, 0), Cell(1, 1, Cloudy)}

OtherVH == {nodata, 0 - 20, 0 - 16, 0}

\* The composites of the optical path recomputed from the datasets a and b.
CompositesFrom(a, b) ==
    GroupbyYearMedian(SeasonWhere(combine_first(
        IndexOf(optical(where(a, make_mask(a, flags)))),
        IndexOf(optical(where(b, make_mask(b, flags)))))))

\* The dataset ds with the cell of pixel q at acquisition t replaced by c.
WithCell(ds, t, q, c) == [ds EXCEPT ![t][q] = c]

\* The Sentinel-1 dataset ds with the backscatter of pixel q at t replaced by x.
WithVH(ds, t, q, x) == [ds EXCEPT ![t][q].VH = x]

\* With the cell of another pixel of the first sensor changed, the composites
\* of the optical path are the same at the pixel.
OpticalPixelIndependence ==
    JustAggregated =>
        \A t \in DOMAIN ds_s2 : \A q \in Pixels : \A c \in OtherCells :
            LET m == CompositesFrom(WithCell(ds_s2, t, q, c), ds_l8)
            IN  \A p \in Pixels \ {q} : \A i \in DOMAIN mpspy :
                    m[i].data[p] = mpspy[i].data[p]

\* C15: the output of every stage at a pixel depends only on that pixel's
\* time series: with the input of another pixel changed, the composites of
\* the optical path and the filtered values of the Sentinel-1 path are the
\* same at the pixel.
C15_PixelIndependence ==
    /\ OpticalPixelIndependence
    /\ SarFiltered =>
        \A t \in DOMAIN ds_s1_asc : \A q \in Pixels : \A x \in OtherVH :
            LET f == FilterVH(WithVH(ds_s1_asc, t, q, x), nodata)
            IN  \A p \in Pixels \ {q} : \A u \in DOMAIN ds_s1_asc :
                    f[u][p] = vh_asc[u][p]

----------------------------------------------------------------------------
(* The observation-count notebooks: valid observations per pixel, computed
   chunk by chunk by the threads of the dask client *)

\* The raster of the count notebooks: rows (y) and columns (x).
Rows == 1..2

Cols == 1..3

Grid == Rows \X Cols

\* Chunk sizes along y and along x: smaller than, equal to and larger than
\* the raster.
ChunkSizesY == {1, 2}

ChunkSizesX == {2, 3, 4}

\* Chunking that drops the last, shorter chunk of an axis.
ChunksOfFullOnly(axis, c) ==
    LET n == Cardinality(axis)
    IN  {(1 + k * c)..((k + 1) * c) : k \in 0..((n \div c) - 1)}

\* dask chunks of an axis of length n with chunk size c: consecutive index
\* ranges of length c, the last one shorter when c does not divide n.
ChunksOf(axis, c) ==
    LET n == Cardinality(axis)
    IN  {(1 + k * c)..(IF (k + 1) * c < n THEN (k + 1) * c ELSE n) :
            k \in 0..((n - 1) \div c)}

\* The spatial chunks of the raster (time is one chunk: 'time': -1).
Tiles(cy, cx) == ChunksOf(Rows, cy) \X ChunksOf(Cols, cx)

\* The pixels of a spatial chunk.
PixelsOf(tile) == tile[1] \X tile[2]

\* The comparison with the nodata pixels counted as well.
ValidVHInclusive(x) == x >= nodata

\* ds.VH > nodata
ValidVH(x) == x > nodata

\* The validity test of the notebook that is run.
ValidObs(prod, x) ==
    IF prod = "optical" THEN MaskCell(x, flags_obs) ELSE ValidVH(x)

\* make_mask(ds.pixel_qa, **flags) / xr.where(ds.VH > nodata, True, False)
\* on the pixels ps: the boolean series of each pixel.
MaskOf(prod, ds, ps) ==
    [p \in ps |-> [i \in 1..Len(ds) |-> ValidObs(prod, ds[i][p])]]

RECURSIVE SumTrue(_)
\* The sum of a boolean series (True counts 1), along the time axis.
SumTrue(b) == IF b = <<>> THEN 0 ELSE (IF Head(b) THEN 1 ELSE 0) + SumTrue(Tail(b))

\* .sum(dim='time') of a block of boolean series.
SumOf(block) == [p \in DOMAIN block |-> SumTrue(block[p])]

\* The rasters a count notebook may load: pixel_qa words (clear, cloudy,
\* shadow, snow, no data) and VH backscatter (values, zero, nodata).
RastersQA ==
    {[p \in Grid |-> 0],
     [p \in Grid |-> IF (p[1] + p[2]) % 2 = 0 THEN Cloudy ELSE 0],
     [p \in Grid |-> IF p[1] = 1 THEN 16 ELSE 8],
     [p \in Grid |-> IF p[2] = 3 THEN 1 ELSE 0]}

RastersVH ==
    {[p \in Grid |-> 0 - 16],
     [p \in Grid |-> IF p[2] = 1 THEN nodata ELSE 0 - 12],
     [p \in Grid |-> nodata],
     [p \in Grid |-> IF p[1] = 1 THEN 0 ELSE nodata]}

\* The sequences of one to k elements of S.
SeqsUpTo(S, k) == UNION {[1..n -> S] : n \in 1..k}

\* The main notebook is not being run.
PipelineIdle ==
    /\ ds_s2 = FixedS2 /\ ds_l8 = FixedL8 /\ ds_s1_asc = FixedS1
    /\ flags_def = [k \in Sensors |-> DOMAIN FlagsDefinition]
    /\ mask_s2 = Unset /\ mask_l8 = Unset
    /\ s2 = Unset /\ l8 = Unset
    /\ s2_l8_ind = Unset /\ s2_l8_ind_spy = Unset
    /\ mpspy = Unset
    /\ diff_18 = NoRaster /\ diff_19 = NoRaster /\ diff_1819 = NoRaster
    /\ vh_asc = Unset /\ mpspy_vh_asc = Unset /\ diff_1819_vh_asc = NoRaster

\* ds = dc.load(..., dask_chunks={'time': -1, 'y': chunk_y, 'x': chunk_x})
InitCount ==
    /\ PipelineIdle
    /\ product \in {"optical", "sar"}
    /\ ds_obs \in SeqsUpTo(IF product = "optical" THEN RastersQA ELSE RastersVH, MaxObs)
    /\ chunk_y \in ChunkSizesY
    /\ chunk_x \in ChunkSizesX
    /\ task = Unset /\ mask_block = Unset /\ count_block = Unset
    /\ count = Unset
    /\ reads = Unset /\ writes = Unset
    /\ err = "none"
    /\ pc = "count"

\* count = <validity>.sum(dim='time'): the lazy graph, one chain of tasks
\* per spatial chunk.
MakeCount ==
    /\ pc = "count"
    /\ task' = [tl \in Tiles(chunk_y, chunk_x) |-> "pending"]
    /\ mask_block' = [tl \in Tiles(chunk_y, chunk_x) |-> Unset]
    /\ count_block' = [tl \in Tiles(chunk_y, chunk_x) |-> Unset]
    /\ reads' = [tl \in Tiles(chunk_y, chunk_x) |-> {}]
    /\ writes' = [tl \in Tiles(chunk_y, chunk_x) |-> {}]
    /\ pc' = "compute"
    /\ UNCHANGED <<optical_vars, sar_vars, product, ds_obs, chunk_y, chunk_x, count, err>>

\* count.compute(), a thread runs the validity task of a chunk.
RunMask(tl) ==
    /\ pc = "compute"
    /\ task[tl] = "pending"
    /\ mask_block' = [mask_block EXCEPT ![tl] = MaskOf(product, ds_obs, PixelsOf(tl))]
    /\ reads' = [reads EXCEPT ![tl] = @ \cup {<<"ds", p>> : p \in PixelsOf(tl)}]
    /\ writes' = [writes EXCEPT ![tl] = @ \cup {<<"mask", p>> : p \in PixelsOf(tl)}]
    /\ task' = [task EXCEPT ![tl] = "masked"]
    /\ UNCHANGED <<optical_vars, sar_vars, product, ds_obs, chunk_y, chunk_x,
                   count_block, count, err, pc>>

\* count.compute(), a thread runs the sum task of a chunk.
RunSum(tl) ==
    /\ pc = "compute"
    /\ task[tl] = "masked"
    /\ count_block' = [count_block EXCEPT ![tl] = SumOf(mask_block[tl])]
    /\ reads' = [reads EXCEPT ![tl] = @ \cup {<<"mask", p>> : p \in PixelsOf(tl)}]
    /\ writes' = [writes EXCEPT ![tl] = @ \cup {<<"count", p>> : p \in PixelsOf(tl)}]
    /\ task' = [task EXCEPT ![tl] = "summed"]
    /\ UNCHANGED <<optical_vars, sar_vars, product, ds_obs, chunk_y, chunk_x,
                   mask_block, count, err, pc>>

\* count = count.compute(): the blocks of all chunks put together.
Gather ==
    /\ pc = "compute"
    /\ \A tl \in DOMAIN task : task[tl] = "summed"
    /\ count' = [p \in UNION {PixelsOf(tl) : tl \in DOMAIN task} |->
                    count_block[CHOOSE tl \in DOMAIN task : p \in PixelsOf(tl)][p]]
    /\ pc' = "computed"
    /\ UNCHANGED <<optical_vars, sar_vars, product, ds_obs, chunk_y, chunk_x,
                   task, mask_block, count_block, reads, writes, err>>

NextCount ==
    \/ MakeCount
    \/ \E tl \in DOMAIN task : RunMask(tl)
    \/ \E tl \in DOMAIN task : RunSum(tl)
    \/ Gather

SpecCount == InitCount /\ [][NextCount]_vars

----------------------------------------------------------------------------
(* Partition independence *)

\* compute() has returned.
Computed == pc = "computed"

\* The count of the whole raster processed as one block, sequentially.
WholeRasterCount == SumOf(MaskOf(product, ds_obs, Grid))

\* C16: with the raster split into spatial chunks of any size, processed by
\* concurrent threads in any interleaving, the final count at every pixel is
\* that of the whole raster processed sequentially, and no chunk's task
\* writes a place that another chunk's task reads.
C16_PartitionIndependence ==
    /\ Computed => count = WholeRasterCount
    /\ pc \in {"compute", "computed"} =>
        \A a, b \in DOMAIN task : a # b => writes[a] \cap reads[b] = {}

\* Four chunks, the last of each row shorter than the chunk size, were
\* computed for a raster whose pixels have different counts.
C16_Witness ==
    /\ Computed
    /\ Cardinality(DOMAIN task) = 4
    /\ chunk_x = 2 /\ chunk_y = 1
    /\ \E p, q \in Grid : count[p] # count[q]
    /\ \A a \in DOMAIN task : reads[a] # {} /\ writes[a] # {}

----------------------------------------------------------------------------
(* Per-pixel observation count *)

\* The pixel value x is a valid observation: all flag predicates hold, or
\* the backscatter is not the nodata value.
IsValidObservation(x) ==
    IF product = "optical" THEN AllHold(x, flags_obs) ELSE x # nodata

\* The acquisitions at which pixel p is valid.
ValidTimes(p) == {i \in 1..Len(ds_obs) : IsValidObservation(ds_obs[i][p])}

\* The orders of a time axis of n acquisitions.
Orders(n) == {f \in [1..n -> 1..n] : \A i, j \in 1..n : f[i] = f[j] => i = j}

====
